---- MODULE Spec2Model ----
(***************************************************************************)
(* Model of generate_training_table.py: the aggregation loop that joins     *)
(* every (training summary, model) pair against the ONT reference models    *)
(* and the LaTeX table printer print_table_latex.                           *)
(*                                                                          *)
(* Representation choices                                                   *)
(*  - Current levels (pA) are fixed-point integers in hundredths of a pA,   *)
(*    so 0.1 pA is 10 and 80.05 pA is 8005.                                 *)
(*  - Python strings that the code slices or searches (dates, model short   *)
(*    names, model group markers) are tuples of characters/digits; strings  *)
(*    that are only compared for equality or passed through are TLA+        *)
(*    strings.                                                              *)
(*  - One printed line is a record [kind, heading, cells].                  *)
(***************************************************************************)
EXTENDS Integers, Sequences, FiniteSets, TLC

VARIABLES
    ont_models,   \* dict: reference model name -> (kmer -> [level_mean])
    args,         \* parsed command line: [treatment, alphabet]
    files,        \* number of summary files not yet opened
    summary,      \* the TrainingSummary of the file being processed
    todo,         \* model short names the inner for loop has still to visit
    model_names,  \* dict model_names (keys only)
    table_rows,   \* list of TableRow
    output,       \* lines written to standard output
    pc            \* "files" | "models" | "done" | "aborted"

vars == <<ont_models, args, files, summary, todo, model_names, table_rows, output, pc>>

-----------------------------------------------------------------------------
(* Bounds of the model *)

MaxFiles == 2
MaxRows == 2

-----------------------------------------------------------------------------
(* Strings that the code searches or slices *)

T == <<"t">>
CP1 == <<"c", ".", "p", "1">>
CP2 == <<"c", ".", "p", "2">>
CP3 == <<"c", ".", "p", "3">>
CP1T == <<"c", ".", "p", "1", ".", "t">>
R7 == <<"r", "7">>
R9 == <<"r", "9">>

\* for model_group in ["t", "c.p1", "c.p2"]
model_groups == <<T, CP1, CP2>>

\* str.find: the lowest index (from 0) where sub occurs in s, or -1
find(s, sub) ==
    LET hits == {i \in 0..(Len(s) - Len(sub)) : SubSeq(s, i + 1, i + Len(sub)) = sub}
    IN  IF hits = {} THEN -1 ELSE CHOOSE i \in hits : \A j \in hits : i <= j

\* Python's < on two strings: lexicographic, a proper prefix is smaller
StrLess(a, b) ==
    \/ \E i \in 1..Len(a) :
          /\ i <= Len(b)
          /\ SubSeq(a, 1, i - 1) = SubSeq(b, 1, i - 1)
          /\ a[i] < b[i]
    \/ Len(a) < Len(b) /\ a = SubSeq(b, 1, Len(a))

\* Python slice s[lo:hi] with 0 <= lo <= hi (indices past the end are clipped)
Slice(s, lo, hi) == SubSeq(s, lo + 1, IF hi <= Len(s) THEN hi ELSE Len(s))

-----------------------------------------------------------------------------
(* Thresholds, in hundredths of a pA: 0.1, 0.5, 1.0, 2.0, 4.0 *)

diff_cuts == <<10, 50, 100, 200, 400>>

abs(x) == IF x < 0 THEN -x ELSE x

-----------------------------------------------------------------------------
(* Classes of methylation_parsers / methylation_utils, used by the script *)

\* ont_models[name].get_num_kmers(): the number of k-mers of a reference model
ont_get_num_kmers(m) == Cardinality(DOMAIN m)

\* summary.get_num_kmers(model_short_name)
get_num_kmers(s, model_short_name) == Cardinality(DOMAIN s.models[model_short_name])

\* summary.get_ont_model_name(model_short_name): the reference identity, pore + alphabet
get_ont_model_name(s, model_short_name) == <<s.pore, s.short_alphabet>>

\* display_model(model_group): the display label of a model family
display_model(model_group) ==
    CASE model_group = T   -> "template"
      [] model_group = CP1 -> "complement-pass-1"
      [] model_group = CP2 -> "complement-pass-2"
      [] OTHER             -> "unknown"

-----------------------------------------------------------------------------
(* Aggregation of one (summary, model) pair: lines 119-138 *)

\* CutCount with the boundary excluded: "if diff > c"
CutCount_strict(diff, count) ==
    [i \in DOMAIN diff_cuts |-> IF diff > diff_cuts[i] THEN count[i] + 1 ELSE count[i]]

\* CutCount with exclusive buckets: only the largest threshold reached is counted
CutCount_exclusive(diff, count) ==
    [i \in DOMAIN diff_cuts |->
        IF /\ diff >= diff_cuts[i]
           /\ \A j \in DOMAIN diff_cuts : j > i => diff < diff_cuts[j]
        THEN count[i] + 1 ELSE count[i]]

\* for (i,c) in enumerate(diff_cuts): if diff >= c: diff_cut_count[i] += 1
CutCount(diff, count) ==
    [i \in DOMAIN diff_cuts |-> IF diff >= diff_cuts[i] THEN count[i] + 1 ELSE count[i]]

\* AccumulateKmer with the two sums fed from each other's field
AccumulateKmer_swapped(acc, s, m) ==
    [total_events   |-> acc.total_events + s.was_trained,
     total_trained  |-> acc.total_trained + s.num_training_events,
     diff_cut_count |-> CutCount(abs(s.trained_level_mean - m.level_mean),
                                 acc.diff_cut_count)]

\* the body of "for kmer in summary.models[model_short_name]" for one k-mer,
\* s the trained statistics and m the reference parameters of that k-mer
AccumulateKmer(acc, s, m) ==
    [total_events   |-> acc.total_events + s.num_training_events,
     total_trained  |-> acc.total_trained + s.was_trained,
     diff_cut_count |-> CutCount(abs(s.trained_level_mean - m.level_mean),
                                 acc.diff_cut_count)]

\* total_events = 0; total_trained = 0; diff_cut_count = [0] * len(diff_cuts)
ZeroAcc ==
    [total_events |-> 0, total_trained |-> 0,
     diff_cut_count |-> [i \in DOMAIN diff_cuts |-> 0]]

\* the loop over the k-mers ks of the trained model (a dict: any order)
RECURSIVE AccumulateKmers(_, _, _, _)
AccumulateKmers(stats, ref, ks, acc) ==
    IF ks = {} THEN acc
    ELSE LET kmer == CHOOSE k \in ks : TRUE
         IN  AccumulateKmers(stats, ref, ks \ {kmer},
                             AccumulateKmer(acc, stats[kmer], ref[kmer]))

\* result = [...] + diff_cut_count; TableRow(*result)
TableRow(s, model_short_name, total_kmers, acc) ==
    [sample        |-> s.sample,
     treatment     |-> s.treatment,
     pore          |-> s.pore,
     lab           |-> s.lab,
     date          |-> s.date,
     model         |-> model_short_name,
     alphabet      |-> s.short_alphabet,
     total_events  |-> acc.total_events,
     total_kmers   |-> total_kmers,
     trained_kmers |-> acc.total_trained,
     d0_1          |-> acc.diff_cut_count[1],
     d0_5          |-> acc.diff_cut_count[2],
     d1_0          |-> acc.diff_cut_count[3],
     d2_0          |-> acc.diff_cut_count[4],
     d4_0          |-> acc.diff_cut_count[5]]

\* the row the loop body builds for one model of the summary
AggregateRow(s, model_short_name, ont) ==
    LET stats == s.models[model_short_name]
        ref   == ont[get_ont_model_name(s, model_short_name)]
    IN  TableRow(s, model_short_name, ont_get_num_kmers(ref),
                 AccumulateKmers(stats, ref, DOMAIN stats, ZeroAcc))

-----------------------------------------------------------------------------
(* print_table_latex: lines 18-86 *)

\* assert(len(date) == 6) of yearmonthday
yearmonthday_assert(date) == Len(date) = 6

\* yearmonthday that leaves the date in day-month-year order
yearmonthday_unchanged(date) == Slice(date, 0, 2) \o Slice(date, 2, 4) \o Slice(date, 4, 6)

\* return date[4:6] + date[2:4] + date[0:2]
yearmonthday(date) == Slice(date, 4, 6) \o Slice(date, 2, 4) \o Slice(date, 0, 2)

\* Skipped with "and" for "or": a row is dropped only when all three tests fail
Skipped_all(row, model_group, treatment, alphabet) ==
    /\ find(row.model, model_group) = -1
    /\ row.treatment # treatment
    /\ row.alphabet # alphabet

\* the "continue" test of the row filter, line 43
Skipped(row, model_group, treatment, alphabet) ==
    \/ find(row.model, model_group) = -1
    \/ row.treatment # treatment
    \/ row.alphabet # alphabet

\* lines 41-45: the rows printed in the block of model_group, in table order
out_rows_of(table, model_group, treatment, alphabet) ==
    SelectSeq(table, LAMBDA row : ~Skipped(row, model_group, treatment, alphabet))

\* list.sort(key=...) is stable: a row goes after the rows whose key is not larger
InsertByKey(sorted, row) ==
    LET k   == yearmonthday(row.date)
        pos == Cardinality({i \in 1..Len(sorted) :
                               ~StrLess(k, yearmonthday(sorted[i].date))})
    IN  SubSeq(sorted, 1, pos) \o <<row>> \o SubSeq(sorted, pos + 1, Len(sorted))

\* out_rows.sort(key=lambda a : yearmonthday(a.date))
RECURSIVE SortByDate(_)
SortByDate(rows) ==
    IF rows = <<>> THEN <<>>
    ELSE InsertByKey(SortByDate(SubSeq(rows, 1, Len(rows) - 1)), rows[Len(rows)])

\* str.upper on a pore name
upper(s) == [i \in DOMAIN s |-> IF s[i] = "r" THEN "R" ELSE s[i]]

Line(kind, heading, cells) == [kind |-> kind, heading |-> heading, cells |-> cells]

Plain(kind) == Line(kind, <<>>, <<>>)

\* model_out_of with first_row_in_model never reset: every row gets the \multirow cell
model_out_of_every_row(first_row_in_model, num_rows, model_group) ==
    <<num_rows, display_model(model_group)>>

\* lines 62-66: the \multirow cell of the first row of a block, "" for the others
model_out_of(first_row_in_model, num_rows, model_group) ==
    IF first_row_in_model THEN <<num_rows, display_model(model_group)>> ELSE <<>>

\* lines 68-78: one data row
RowLine(row, model_out) ==
    Line("row", model_out,
         <<row.sample, row.treatment, <<upper(row.pore), row.lab, row.date>>,
           row.total_events, row.trained_kmers,
           row.d0_1, row.d0_5, row.d1_0, row.d2_0, row.d4_0>>)

\* lines 50-79 for a sorted block
BlockLines(out_rows, model_group) ==
    [i \in 1..Len(out_rows) |->
        RowLine(out_rows[i], model_out_of(i = 1, Len(out_rows), model_group))]
    \o <<Plain("hline")>>

\* lines 38-79, from block gi on: the lines printed and whether the loop completed.
\* The sort evaluates yearmonthday on every row of the block, so one date whose
\* length is not 6 raises after the block's opening \hline.
RECURSIVE PrintBlocks(_, _, _, _)
PrintBlocks(table, gi, treatment, alphabet) ==
    IF gi > Len(model_groups) THEN [lines |-> <<>>, ok |-> TRUE]
    ELSE LET out_rows == out_rows_of(table, model_groups[gi], treatment, alphabet)
         IN  IF \E i \in 1..Len(out_rows) : ~yearmonthday_assert(out_rows[i].date)
             THEN [lines |-> <<Plain("hline")>>, ok |-> FALSE]
             ELSE LET rest == PrintBlocks(table, gi + 1, treatment, alphabet)
                  IN  [lines |-> <<Plain("hline")>>
                                 \o BlockLines(SortByDate(out_rows), model_groups[gi])
                                 \o rest.lines,
                       ok    |-> rest.ok]

\* lines 24-36
HeaderLines ==
    <<Plain("begin_table"), Plain("begin_adjustbox"), Plain("begin_tabular"),
      Plain("hline"),
      Line("header", <<>>,
           <<"model", "sample", "run", "training events", "trained kmers">> \o diff_cuts)>>

\* lines 80-86
FooterLines(treatment, alphabet) ==
    <<Plain("end_tabular"), Plain("end_adjustbox"),
      Line("caption", <<>>, <<treatment, alphabet>>), Plain("end_table")>>

\* print_table_latex(table, treatment, alphabet)
print_table_latex(table, treatment, alphabet) ==
    LET blocks == PrintBlocks(table, 1, treatment, alphabet)
    IN  IF blocks.ok
        THEN [lines |-> HeaderLines \o blocks.lines \o FooterLines(treatment, alphabet),
              ok    |-> TRUE]
        ELSE [lines |-> HeaderLines \o blocks.lines, ok |-> FALSE]

-----------------------------------------------------------------------------
(* Inputs *)

Kmers == {"AA", "AC"}

D010216 == <<0, 1, 0, 2, 1, 6>>
D020115 == <<0, 2, 0, 1, 1, 5>>
D150116 == <<1, 5, 0, 1, 1, 6>>
D311299 == <<3, 1, 1, 2, 9, 9>>
D1216 == <<1, 2, 1, 6>>

\* the k-mer -> statistics mappings of one trained model
StatMapsOver(StatSet) ==
    UNION {[ks -> StatSet] : ks \in (SUBSET Kmers) \ {{}}}

\* the k-mer -> parameters mappings of one reference model
RefModelsOver(Means) ==
    UNION {[ks -> [level_mean : Means]] : ks \in (SUBSET Kmers) \ {{}}}

\* summary.models: any number of models, named from names
ModelsOver(names, StatSet) ==
    UNION {[ns -> StatMapsOver(StatSet)] : ns \in SUBSET names}

\* the orders in which a dict with key set S can be iterated
Orders(S) ==
    {q \in [1..Cardinality(S) -> S] : \A i, j \in DOMAIN q : i # j => q[i] # q[j]}

Identities == {<<R7, "cpg">>, <<R9, "cpg">>}

\* what load_ont_models_from_fofn can leave in ont_models
Stores == UNION {[ids -> RefModelsOver({8000})] : ids \in SUBSET Identities}

Stats == [trained_level_mean : {8005}, num_training_events : {10}, was_trained : {1}]

\* what TrainingSummary(summary_file) can return
Summaries ==
    [sample : {"s1"}, treatment : {"pcr"}, pore : {R7, R9}, lab : {"lab"},
     date : {D010216}, short_alphabet : {"cpg"},
     models : ModelsOver({T, CP1}, Stats)]

Args == [treatment : {"pcr", "M.SssI"}, alphabet : {"cpg"}]

NoSummary ==
    [sample |-> "", treatment |-> "", pore |-> <<>>, lab |-> "", date |-> <<>>,
     short_alphabet |-> "", models |-> <<>>]

-----------------------------------------------------------------------------
(* The script: lines 90-142 *)

Init ==
    /\ ont_models \in Stores
    /\ args \in Args
    /\ files \in 0..MaxFiles
    /\ summary = NoSummary
    /\ todo = <<>>
    /\ model_names = {}
    /\ table_rows = <<>>
    /\ output = <<>>
    /\ pc = "files"

\* line 111: the next summary file is parsed; the inner loop starts
OpenSummary ==
    /\ pc = "files"
    /\ files > 0
    /\ \E s \in Summaries :
          /\ summary' = s
          /\ todo' \in Orders(DOMAIN s.models)
    /\ files' = files - 1
    /\ pc' = "models"
    /\ UNCHANGED <<ont_models, args, model_names, table_rows, output>>

\* the model the inner loop is at
model_short_name == Head(todo)

ont_model_name == get_ont_model_name(summary, model_short_name)

\* line 117 (and 119, 127) index ont_models with the resolved name
OntModelFound == ont_model_name \in DOMAIN ont_models

\* the assertion of line 117
NumKmersAssert ==
    ont_get_num_kmers(ont_models[ont_model_name]) = get_num_kmers(summary, model_short_name)

\* line 127 finds every trained k-mer in the reference model
KmersFound ==
    DOMAIN summary.models[model_short_name] \subseteq DOMAIN ont_models[ont_model_name]

\* lines 114-117: ont_models[ont_model_name] raises KeyError
AbortNotFound ==
    /\ pc = "models"
    /\ todo # <<>>
    /\ ~OntModelFound
    /\ model_names' = model_names \cup {model_short_name}
    /\ pc' = "aborted"
    /\ UNCHANGED <<ont_models, args, files, summary, todo, table_rows, output>>

\* lines 114-117: the k-mer count assertion fails
AbortNumKmers ==
    /\ pc = "models"
    /\ todo # <<>>
    /\ OntModelFound
    /\ ~NumKmersAssert
    /\ model_names' = model_names \cup {model_short_name}
    /\ pc' = "aborted"
    /\ UNCHANGED <<ont_models, args, files, summary, todo, table_rows, output>>

\* lines 114-127: a trained k-mer is not a key of the reference model (KeyError)
AbortKmer ==
    /\ pc = "models"
    /\ todo # <<>>
    /\ OntModelFound
    /\ NumKmersAssert
    /\ ~KmersFound
    /\ model_names' = model_names \cup {model_short_name}
    /\ pc' = "aborted"
    /\ UNCHANGED <<ont_models, args, files, summary, todo, table_rows, output>>

\* AggregateModel without the assertion of line 117
AggregateModel_unchecked ==
    /\ pc = "models"
    /\ todo # <<>>
    /\ OntModelFound
    /\ KmersFound
    /\ model_names' = model_names \cup {model_short_name}
    /\ table_rows' = Append(table_rows, AggregateRow(summary, model_short_name, ont_models))
    /\ todo' = Tail(todo)
    /\ UNCHANGED <<ont_models, args, files, summary, output, pc>>

\* AggregateModel that passes over the trained k-mers the reference model lacks
AggregateModel_lenient ==
    /\ pc = "models"
    /\ todo # <<>>
    /\ OntModelFound
    /\ NumKmersAssert
    /\ model_names' = model_names \cup {model_short_name}
    /\ LET stats == summary.models[model_short_name]
           ref   == ont_models[ont_model_name]
       IN  table_rows' =
              Append(table_rows,
                     TableRow(summary, model_short_name, ont_get_num_kmers(ref),
                              AccumulateKmers(stats, ref, DOMAIN stats \cap DOMAIN ref,
                                              ZeroAcc)))
    /\ todo' = Tail(todo)
    /\ UNCHANGED <<ont_models, args, files, summary, output, pc>>

\* lines 114-138: one pass of the inner loop that appends a row
AggregateModel ==
    /\ pc = "models"
    /\ todo # <<>>
    /\ OntModelFound
    /\ NumKmersAssert
    /\ KmersFound
    /\ model_names' = model_names \cup {model_short_name}
    /\ table_rows' = Append(table_rows, AggregateRow(summary, model_short_name, ont_models))
    /\ todo' = Tail(todo)
    /\ UNCHANGED <<ont_models, args, files, summary, output, pc>>

\* EndSummary with line 142 indented into the loop over the files
EndSummary_printing ==
    /\ pc = "models"
    /\ todo = <<>>
    /\ output' = output \o print_table_latex(table_rows, args.treatment, args.alphabet).lines
    /\ pc' = "files"
    /\ UNCHANGED <<ont_models, args, files, summary, todo, model_names, table_rows>>

\* line 113: the inner loop is exhausted, back to the loop over the files
EndSummary ==
    /\ pc = "models"
    /\ todo = <<>>
    /\ pc' = "files"
    /\ UNCHANGED <<ont_models, args, files, summary, todo, model_names, table_rows, output>>

\* line 142, after the loop over the files
PrintTable ==
    /\ pc = "files"
    /\ files = 0
    /\ LET printed == print_table_latex(table_rows, args.treatment, args.alphabet)
       IN  /\ output' = output \o printed.lines
           /\ pc' = IF printed.ok THEN "done" ELSE "aborted"
    /\ UNCHANGED <<ont_models, args, files, summary, todo, model_names, table_rows>>

Next ==
    \/ OpenSummary
    \/ AbortNotFound
    \/ AbortNumKmers
    \/ AbortKmer
    \/ AggregateModel
    \/ EndSummary
    \/ PrintTable

Spec == Init /\ [][Next]_vars

-----------------------------------------------------------------------------
(* The aggregation of one model, over a wide range of statistics *)

StatsAgg ==
    [trained_level_mean : {8000, 8005, 8010, 8050, 8100, 8200, 8500, 8600},
     num_training_events : {0, 10},
     was_trained : {0, 1}]

StoresAgg == [{<<R7, "cpg">>} -> RefModelsOver({8000, 8200})]

SummariesAgg ==
    [sample : {"s1"}, treatment : {"pcr"}, pore : {R7}, lab : {"lab"},
     date : {D010216}, short_alphabet : {"cpg"},
     models : [{T} -> StatMapsOver(StatsAgg)]]

\* the state at line 113, the first summary just parsed
InitAgg ==
    /\ ont_models \in StoresAgg
    /\ args = [treatment |-> "pcr", alphabet |-> "cpg"]
    /\ files = 0
    /\ summary \in SummariesAgg
    /\ todo = <<T>>
    /\ model_names = {}
    /\ table_rows = <<>>
    /\ output = <<>>
    /\ pc = "models"

NextAgg ==
    \/ AbortNumKmers
    \/ AbortKmer
    \/ AggregateModel

SpecAgg == InitAgg /\ [][NextAgg]_vars

-----------------------------------------------------------------------------
(* print_table_latex, over a wide range of tables *)

RowsRender ==
    [sample : {"s1"}, treatment : {"pcr", "M.SssI"}, pore : {R7}, lab : {"lab"},
     date : {D010216, D020115, D150116, D311299, D1216},
     model : {T, CP1, CP2, CP3, CP1T},
     alphabet : {"cpg"},
     total_events : {30}, total_kmers : {2}, trained_kmers : {2},
     d0_1 : {1}, d0_5 : {1}, d1_0 : {1}, d2_0 : {1}, d4_0 : {0}]

ArgsRender == [treatment : {"pcr"}, alphabet : {"cpg", "nucleotide"}]

TablesRender == UNION {[1..n -> RowsRender] : n \in 0..MaxRows}

\* the state at line 142, the loop over the files finished
InitRender ==
    /\ ont_models = <<>>
    /\ args \in ArgsRender
    /\ files = 0
    /\ summary = NoSummary
    /\ todo = <<>>
    /\ model_names = {}
    /\ table_rows \in TablesRender
    /\ output = <<>>
    /\ pc = "files"

NextRender == PrintTable

SpecRender == InitRender /\ [][NextRender]_vars

-----------------------------------------------------------------------------
(* Properties of the aggregation *)

\* the deviation counts of a row, in threshold order
DeviationCounts(row) == <<row.d0_1, row.d0_5, row.d1_0, row.d2_0, row.d4_0>>

\* the trained statistics and the reference model a row of the current summary joins
TrainedOf(row) == summary.models[row.model]

ReferenceOf(row) == ont_models[get_ont_model_name(summary, row.model)]

Deviation(row, kmer) ==
    LET d == TrainedOf(row)[kmer].trained_level_mean - ReferenceOf(row)[kmer].level_mean
    IN  IF d >= 0 THEN d ELSE 0 - d

C2_NonIncreasing ==
    \A j \in DOMAIN table_rows :
       /\ table_rows[j].d0_1 >= table_rows[j].d0_5
       /\ table_rows[j].d0_5 >= table_rows[j].d1_0
       /\ table_rows[j].d1_0 >= table_rows[j].d2_0
       /\ table_rows[j].d2_0 >= table_rows[j].d4_0

\* C2 witness: a row whose counts fall strictly, from two k-mers with different deviations.
C2_Witness ==
    /\ Len(table_rows) = 1
    /\ table_rows[1].d0_1 = 2
    /\ table_rows[1].d1_0 = 1
    /\ table_rows[1].d4_0 = 0

\* C3: every emitted row has trained_kmers <= total_kmers and total_events >= 0,
\* total_kmers being the reference model's k-mer count and the two sums running
\* over the trained model's k-mers.
C3_TrainedWithinTotal ==
    \A j \in DOMAIN table_rows :
       /\ table_rows[j].total_kmers = Cardinality(DOMAIN ReferenceOf(table_rows[j]))
       /\ table_rows[j].trained_kmers <= table_rows[j].total_kmers
       /\ table_rows[j].total_events >= 0

\* C3 witness: a row where every k-mer was trained and events were counted.
C3_Witness ==
    /\ Len(table_rows) = 1
    /\ table_rows[1].total_kmers = 2
    /\ table_rows[1].trained_kmers = 2
    /\ table_rows[1].total_events = 20

-----------------------------------------------------------------------------
(* Properties of the script's control flow *)

\* the inner loop stands at a model
AtModel == pc = "models" /\ todo # <<>>

\* the run was aborted inside the aggregation loop, at the model Head(todo)
AbortedAtModel == pc = "aborted" /\ todo # <<>>

\* C4: when the reference model's k-mer count differs from the summary's k-mer
\* count for the model the loop is at, that pass aborts the run and appends no
\* row, and no row is appended afterwards.
C4_NumKmersMismatchAborts ==
    [][/\ (AtModel /\ OntModelFound /\ ~NumKmersAssert)
            => (pc' = "aborted" /\ table_rows' = table_rows)
       /\ pc = "aborted" => table_rows' = table_rows]_vars

\* C4 witness: the run aborted at a model whose reference model exists and has
\* another number of k-mers, after rows of earlier models were appended.
C4_Witness ==
    /\ AbortedAtModel
    /\ OntModelFound
    /\ ~NumKmersAssert
    /\ table_rows # <<>>

\* C8: nothing is printed unless every file and every model was aggregated: output
\* appears only once no file and no model is left and every model name visited
\* has a row; a run aborted in the aggregation loop has printed nothing.
C8_PrintOnlyAfterAll ==
    /\ output # <<>> =>
          /\ files = 0
          /\ todo = <<>>
          /\ \A n \in model_names : \E j \in DOMAIN table_rows : table_rows[j].model = n
    /\ AbortedAtModel => output = <<>>

\* C8 witness: the reference identity of a later model is absent from ont_models;
\* the run aborted with rows already aggregated and nothing printed.
C8_Witness ==
    /\ AbortedAtModel
    /\ ~OntModelFound
    /\ table_rows # <<>>
    /\ output = <<>>

\* C10: when the k-mer counts agree but a trained k-mer is missing from the
\* reference model, the pass aborts the run and appends no row; a row is appended
\* only by a pass all of whose trained k-mers are in the reference model.
C10_MissingKmerAborts ==
    [][/\ (AtModel /\ OntModelFound /\ NumKmersAssert /\ ~KmersFound)
            => (pc' = "aborted" /\ table_rows' = table_rows)
       /\ table_rows' # table_rows
            => (AtModel /\ OntModelFound /\ KmersFound
                /\ Len(table_rows') = Len(table_rows) + 1)]_vars

\* C10 witness: the run aborted at a model that passed the count check (equal
\* sizes) with a trained k-mer the reference model lacks.
C10_Witness ==
    /\ AbortedAtModel
    /\ OntModelFound
    /\ NumKmersAssert
    /\ ~KmersFound

-----------------------------------------------------------------------------
(* Properties of the printed table *)

\* the number of \hline lines printed before line i
HlinesBefore(i) == Cardinality({j \in 1..(i - 1) : output[j].kind = "hline"})

\* the positions of the data rows of the k-th block: one \hline closes the header,
\* and every block is opened and closed by one
BlockIndices(k) ==
    {i \in DOMAIN output : output[i].kind = "row" /\ HlinesBefore(i) = 2 * k}

\* the data rows of the k-th block, in printed order
BlockPrinted(k) ==
    [n \in 1..Cardinality(BlockIndices(k)) |->
        output[CHOOSE i \in BlockIndices(k) :
                   Cardinality({j \in BlockIndices(k) : j <= i}) = n]]

\* the date printed in a data row
PrintedDate(line) == line.cells[3][3]

\* the cells a row is printed with
CellsOf(row) ==
    <<row.sample, row.treatment, <<upper(row.pore), row.lab, row.date>>,
      row.total_events, row.trained_kmers,
      row.d0_1, row.d0_5, row.d1_0, row.d2_0, row.d4_0>>

\* the row is of the requested treatment and alphabet
Requested(row) == row.treatment = args.treatment /\ row.alphabet = args.alphabet

\* the model of the row contains the marker
HasMarker(row, marker) ==
    \E i \in 1..Len(row.model) :
       /\ i + Len(marker) - 1 <= Len(row.model)
       /\ \A j \in 1..Len(marker) : row.model[i + j - 1] = marker[j]

InFamily(row) == HasMarker(row, T) \/ HasMarker(row, CP1) \/ HasMarker(row, CP2)

\* a 6-digit date in day-month-year encoding, as <<year, month, day>>
Calendar(date) ==
    <<10 * date[5] + date[6], 10 * date[3] + date[4], 10 * date[1] + date[2]>>

\* date a is an earlier day than date b (same century)
Earlier(a, b) ==
    LET x == Calendar(a)
        y == Calendar(b)
    IN  \/ x[1] < y[1]
        \/ x[1] = y[1] /\ x[2] < y[2]
        \/ x[1] = y[1] /\ x[2] = y[2] /\ x[3] < y[3]

\* C5: a finished rendering prints every requested row whose model carries a
\* family marker exactly once, in one of the three blocks, and prints no other
\* row: the printed data rows are, with multiplicity, the cells of those rows.
C5_Partition ==
    pc = "done" =>
       \A line \in {CellsOf(table_rows[j]) : j \in DOMAIN table_rows}
                   \cup {output[i].cells : i \in {i \in DOMAIN output : output[i].kind = "row"}} :
          Cardinality({i \in DOMAIN output :
                          output[i].kind = "row" /\ output[i].cells = line})
          = Cardinality({j \in DOMAIN table_rows :
                            /\ Requested(table_rows[j])
                            /\ InFamily(table_rows[j])
                            /\ CellsOf(table_rows[j]) = line})

\* C6: in a finished rendering the data rows of each block are in ascending order
\* of yearmonthday(date), and no row comes before a row of the same block with an
\* earlier date.
C6_SortedByDate ==
    pc = "done" =>
       \A k \in 1..3 :
          \A m, n \in 1..Len(BlockPrinted(k)) :
             m < n =>
                LET a == PrintedDate(BlockPrinted(k)[m])
                    b == PrintedDate(BlockPrinted(k)[n])
                IN  /\ ~StrLess(yearmonthday(b), yearmonthday(a))
                    /\ ~Earlier(b, a)
                    /\ StrLess(yearmonthday(a), yearmonthday(b)) <=> Earlier(a, b)

\* C6 witness: two rows of the template block that stood latest-first in the table
\* are printed earliest-first.
C6_Witness ==
    /\ pc = "done"
    /\ Len(table_rows) >= 2
    /\ table_rows[1].model = T /\ table_rows[2].model = T
    /\ Requested(table_rows[1]) /\ Requested(table_rows[2])
    /\ Earlier(table_rows[2].date, table_rows[1].date)
    /\ Len(BlockPrinted(1)) >= 2
    /\ PrintedDate(BlockPrinted(1)[1]) = table_rows[2].date
    /\ PrintedDate(BlockPrinted(1)[2]) = table_rows[1].date

\* the kinds of the lines of a table without data rows
EmptyTableKinds ==
    <<"begin_table", "begin_adjustbox", "begin_tabular", "hline", "header",
      "hline", "hline", "hline", "hline", "hline", "hline",
      "end_tabular", "end_adjustbox", "caption", "end_table">>

\* the table was rendered (completely or not)
Rendered == files = 0 /\ todo = <<>> /\ pc \in {"done", "aborted"}

\* C7: when no row of table_rows has the requested treatment and alphabet (the
\* empty table included), rendering completes and prints the header, the block
\* separators and the caption, and no data row.
C7_NoMatchEmptyBody ==
    (Rendered /\ \A j \in DOMAIN table_rows : ~Requested(table_rows[j])) =>
       /\ pc = "done"
       /\ Len(output) = Len(EmptyTableKinds)
       /\ \A i \in DOMAIN output : output[i].kind = EmptyTableKinds[i]
       /\ output[14].cells = <<args.treatment, args.alphabet>>

\* C7 witness: a table with rows, one of them with a date of the wrong length, none
\* of the requested alphabet, was rendered.
C7_Witness ==
    /\ Rendered
    /\ table_rows # <<>>
    /\ \A j \in DOMAIN table_rows : ~Requested(table_rows[j])
    /\ \E j \in DOMAIN table_rows : Len(table_rows[j].date) # 6 /\ table_rows[j].model = T
    /\ output # <<>>

\* the lines of the k-th block that carry a heading
HeadingIndices(k) ==
    {i \in DOMAIN output :
        /\ output[i].kind # "hline"
        /\ HlinesBefore(i) = 2 * k
        /\ output[i].heading # <<>>}

\* C9 as stated: a finished rendering has, for each of the three blocks, exactly
\* one heading, with the family's label and the number of data rows of the block.
C9_HeadingPerBlock ==
    pc = "done" =>
       \A k \in 1..3 :
          /\ Cardinality(HeadingIndices(k)) = 1
          /\ \A i \in HeadingIndices(k) :
                output[i].heading = <<Len(BlockPrinted(k)), display_model(model_groups[k])>>

\* C9 amended: a finished rendering has a heading for each block that has data
\* rows, and only for those: it is the leading cell of the block's first data row
\* and no other row carries one; it holds the family's label and the number of
\* data rows of the block.
C9_HeadingOnFirstRow ==
    pc = "done" =>
       \A k \in 1..3 :
          LET rows == BlockPrinted(k)
          IN  /\ Cardinality(HeadingIndices(k)) = (IF rows = <<>> THEN 0 ELSE 1)
              /\ rows # <<>> =>
                    rows[1].heading =
                       <<Len(rows),
                         CASE k = 1 -> "template"
                           [] k = 2 -> "complement-pass-1"
                           [] k = 3 -> "complement-pass-2">>

\* C9 witness: a block with two data rows next to a block with none.
C9_Witness ==
    /\ pc = "done"
    /\ Len(BlockPrinted(1)) = 2
    /\ Len(BlockPrinted(2)) = 0
    /\ BlockPrinted(1)[1].heading = <<2, "template">>
====
